---- MODULE Spec2Model ----
(***************************************************************************)
(* Model of langfuse-junit-exporter: src/src/models.py (GenericItemInfo)   *)
(* and src/src/reporting.py (the two report commands and the memoized run  *)
(* fetch).                                                                 *)
(*                                                                         *)
(* Python values are modelled as records so that any value can be compared *)
(* with None: None is [py |-> "None"], a float is [float |-> k] where k    *)
(* counts units of 1/Scale, a list is [list |-> <<...>>].  Strings that    *)
(* the code edits character by character (score names) are sequences of    *)
(* one-character strings; rendered text is a sequence of string pieces in  *)
(* the order the f-string concatenates them.                               *)
(***************************************************************************)
EXTENDS Integers, Sequences, FiniteSets, TLC

VARIABLES
    \* --- GenericItemInfo under test (specification SpecItem) ---
    langfuse_item,      \* the DatasetRunItem handed to from_langfuse_item
    trace,              \* what langfuse.fetch_trace returns for it
    item,               \* the GenericItemInfo built, None before/if not built
    result_set,         \* the list of GenericItemInfo handed to the summary
                        \* (specification SpecSummary)
    result,             \* outcome of the last method call on the item or set
    \* --- report commands (specification Spec) ---
    cache,              \* lru_cache of _get_dataset_run_items, LRU first
    req,                \* the last report command, whether its pair had been
                        \* requested before, and how it ended
    calls,              \* remote calls issued by the last command, in order
    stdout,             \* what the last command printed on standard output
    fds,                \* files opened by the last command
    events,             \* what the last command did, in program order
    first               \* per (dataset, run): how the first command's fetch
                        \* ended and, unless it raised, its result and calls

itemVars == <<langfuse_item, trace, item, result_set, result>>
reportVars == <<cache, req, calls, stdout, fds, events, first>>
vars == <<langfuse_item, trace, item, result_set, result,
          cache, req, calls, stdout, fds, events, first>>

---------------------------------------------------------------------------
(* Bounds *)

Scale == 2          \* floats are fixed point: Float(k) stands for k/Scale
MaxScores == 2      \* longest score list of a trace drawn in SpecItem
MaxItems == 2       \* longest dataset_run_items of a remote run
MaxRecords == 3     \* most score records in a result set drawn in SpecSummary

---------------------------------------------------------------------------
(* Python values *)

None == [py |-> "None"]
Float(k) == [float |-> k]
Num(n) == Float(n * Scale)
PyList(s) == [list |-> s]

\* dict.get(key, default)
Get(d, key, default) == IF key \in DOMAIN d THEN d[key] ELSE default

Abs(k) == IF k < 0 THEN 0 - k ELSE k

\* the decimal digits of r/den after the point, at most n of them
RECURSIVE Fraction(_, _, _)
Fraction(r, den, n) ==
    IF n = 0 \/ (r = 0) THEN ""
    ELSE ToString((r * 10) \div den) \o Fraction((r * 10) % den, den, n - 1)

FractionDigits == 16

\* str(x) as an f-string renders it: "None" for None, repr of the float
PyStr(x) ==
    IF x = None THEN "None"
    ELSE LET frac == Fraction(Abs(x.float) % Scale, Scale, FractionDigits)
         IN  (IF x.float < 0 THEN "-" ELSE "")
                \o ToString(Abs(x.float) \div Scale)
                \o "."
                \o (IF frac = "" THEN "0" ELSE frac)

\* variant: str.replace(".", "_", 1), only the first '.' is replaced
Replace_first(name) ==
    [i \in DOMAIN name |->
        IF name[i] = "." /\ (\A j \in 1..(i - 1) : name[j] # ".") THEN "_" ELSE name[i]]

\* str.replace(".", "_") on a string given as its characters
Replace(name) == [i \in DOMAIN name |-> IF name[i] = "." THEN "_" ELSE name[i]]

---------------------------------------------------------------------------
(* Input universes *)

ScoreNames == { <<"p">>, <<"a", ".", "b", ".", "c">>, <<"a", "_", "b", "_", "c">> }
FloatValues == { Float(0 - Scale), Float(0), Float(1), Float(Scale) }
RemoteScores == [name : ScoreNames, value : FloatValues \cup {None}]
Costs == { None, Float(0), Float(1) }
Latencies == { None, Float(Scale) }

SeqsUpTo(S, n) == UNION { [1..k -> S] : k \in 0..n }

\* the i-th DatasetRunItem of a run: ids and trace ids are pairwise distinct
ItemRef(i) == [id |-> "i" \o ToString(i), trace_id |-> "t" \o ToString(i)]
ItemRefs == { ItemRef(i) : i \in 1..MaxItems }
RunItems(k) == [i \in 1..k |-> ItemRef(i)]

TraceData == [total_cost : Costs, latency : Latencies,
              scores : SeqsUpTo(RemoteScores, MaxScores)]
Traces == { [data |-> d] : d \in TraceData }

\* result sets handed to the summary: the i-th item is ItemRef(i) with no
\* cost or duration and any scores, MaxRecords score records at most in all
SummaryScores ==
    [name : { <<"a", ".", "b", ".", "c">>, <<"a", "_", "b", "_", "c">> },
     value : { Float(0 - 1), Float(Scale) }]
RECURSIVE ResultSetsOf(_, _)
ResultSetsOf(k, budget) ==
    IF k = 0 THEN { <<>> }
    ELSE UNION { { Append(rs, [item_id |-> ItemRef(k).id, trace_id |-> ItemRef(k).trace_id,
                               cost |-> None, duration |-> None, scores |-> sc]) :
                     rs \in ResultSetsOf(k - 1, budget - Len(sc)) } :
                 sc \in SeqsUpTo(SummaryScores, IF budget < MaxScores THEN budget ELSE MaxScores) }
ResultSets == UNION { ResultSetsOf(k, MaxRecords) : k \in 0..MaxItems }

---------------------------------------------------------------------------
(* src/src/models.py *)

\* variant: `if score.value` instead of `if score.value is not None`
RECURSIVE FilterScores_falsy(_)
FilterScores_falsy(s) ==
    IF s = <<>> THEN <<>>
    ELSE (IF Head(s).value # None /\ Head(s).value # Float(0)
            THEN << [name |-> Head(s).name, value |-> Head(s).value] >>
            ELSE <<>>) \o FilterScores_falsy(Tail(s))

\* the list comprehension of from_langfuse_item: the scores whose value is
\* not None, in order
RECURSIVE FilterScores(_)
FilterScores(s) ==
    IF s = <<>> THEN <<>>
    ELSE (IF Head(s).value # None
            THEN << [name |-> Head(s).name, value |-> Head(s).value] >>
            ELSE <<>>) \o FilterScores(Tail(s))

GenericItemInfo(item_id, trace_id, cost, duration, scores) ==
    [item_id |-> item_id, trace_id |-> trace_id, cost |-> cost,
     duration |-> duration, scores |-> scores]

ValueError(tid) == [error |-> "ValueError", message |-> <<"Trace ", tid, " not found">>]

\* variant: item_id is taken from langfuse_item.trace_id
from_langfuse_item_traceasid(li, tr) ==
    IF tr = None
    THEN [raised |-> ValueError(li.trace_id)]
    ELSE [raised |-> None,
          value |-> GenericItemInfo(li.trace_id, li.trace_id, tr.data.total_cost,
                                    tr.data.latency, FilterScores(tr.data.scores))]

\* from_langfuse_item given the result tr of langfuse.fetch_trace(trace_id)
from_langfuse_item(li, tr) ==
    IF tr = None
    THEN [raised |-> ValueError(li.trace_id)]
    ELSE [raised |-> None,
          value |-> GenericItemInfo(li.id, li.trace_id, tr.data.total_cost,
                                    tr.data.latency, FilterScores(tr.data.scores))]

\* variant: any truthy value of the named score counts as success
is_success_truthy(self, success_score_name) ==
    \E i \in DOMAIN self.scores :
        /\ self.scores[i]["name"] = success_score_name
        /\ Get(self.scores[i], "value", Num(0)) # Num(0)

is_success(self, success_score_name) ==
    \E i \in DOMAIN self.scores :
        /\ self.scores[i]["name"] = success_score_name
        /\ Get(self.scores[i], "value", Num(0)) = Num(1)

ident(n, message) == [indent |-> n, text |-> message]

ScoreLine(score) ==
    ident(8, <<"<property name='evals.scores.">> \o Replace(score["name"])
              \o <<".value' value='", PyStr(score["value"]), "' />">>)

FailureLine(success_score_name) ==
    ident(4, <<"<failure message='Test case failed. ">> \o success_score_name
              \o <<" is either missing or its value is not 1.0' />">>)

\* variant: the failure check sits inside `if self.scores:`
to_junit_nested(self, success_score_name) ==
    << ident(0, <<"<testcase classname='langfuse' name='", self.item_id,
                  "' time='", PyStr(self.duration), "'>">>),
       ident(4, <<"<properties>">>),
       ident(8, <<"<property name='evals.trace_id' value='", self.trace_id, "' />">>) >>
    \o (IF self.cost # None
          THEN << ident(8, <<"<property name='evals.cost' value='", PyStr(self.cost), "' />">>) >>
          ELSE <<>>)
    \o [i \in DOMAIN self.scores |-> ScoreLine(self.scores[i])]
    \o << ident(4, <<"</properties>">>) >>
    \o (IF self.scores # <<>> /\ ~ is_success(self, success_score_name)
          THEN << FailureLine(success_score_name) >>
          ELSE <<>>)
    \o << ident(0, <<"</testcase>">>) >>

\* variant: `if self.cost:` instead of `if self.cost is not None:`
to_junit_truthycost(self, success_score_name) ==
    << ident(0, <<"<testcase classname='langfuse' name='", self.item_id,
                  "' time='", PyStr(self.duration), "'>">>),
       ident(4, <<"<properties>">>),
       ident(8, <<"<property name='evals.trace_id' value='", self.trace_id, "' />">>) >>
    \o (IF self.cost # None /\ self.cost # Float(0)
          THEN << ident(8, <<"<property name='evals.cost' value='", PyStr(self.cost), "' />">>) >>
          ELSE <<>>)
    \o [i \in DOMAIN self.scores |-> ScoreLine(self.scores[i])]
    \o << ident(4, <<"</properties>">>) >>
    \o (IF ~ is_success(self, success_score_name)
          THEN << FailureLine(success_score_name) >>
          ELSE <<>>)
    \o << ident(0, <<"</testcase>">>) >>

\* variant: the cost property is appended after the score properties
to_junit_costlast(self, success_score_name) ==
    << ident(0, <<"<testcase classname='langfuse' name='", self.item_id,
                  "' time='", PyStr(self.duration), "'>">>),
       ident(4, <<"<properties>">>),
       ident(8, <<"<property name='evals.trace_id' value='", self.trace_id, "' />">>) >>
    \o [i \in DOMAIN self.scores |-> ScoreLine(self.scores[i])]
    \o (IF self.cost # None
          THEN << ident(8, <<"<property name='evals.cost' value='", PyStr(self.cost), "' />">>) >>
          ELSE <<>>)
    \o << ident(4, <<"</properties>">>) >>
    \o (IF ~ is_success(self, success_score_name)
          THEN << FailureLine(success_score_name) >>
          ELSE <<>>)
    \o << ident(0, <<"</testcase>">>) >>

\* the list `lines` of to_junit; the "\n".join is left to the reader of lines
to_junit(self, success_score_name) ==
    << ident(0, <<"<testcase classname='langfuse' name='", self.item_id,
                  "' time='", PyStr(self.duration), "'>">>),
       ident(4, <<"<properties>">>),
       ident(8, <<"<property name='evals.trace_id' value='", self.trace_id, "' />">>) >>
    \o (IF self.cost # None
          THEN << ident(8, <<"<property name='evals.cost' value='", PyStr(self.cost), "' />">>) >>
          ELSE <<>>)
    \o [i \in DOMAIN self.scores |-> ScoreLine(self.scores[i])]
    \o << ident(4, <<"</properties>">>) >>
    \o (IF ~ is_success(self, success_score_name)
          THEN << FailureLine(success_score_name) >>
          ELSE <<>>)
    \o << ident(0, <<"</testcase>">>) >>

---------------------------------------------------------------------------
(* Specification SpecItem: one GenericItemInfo, built and then queried *)

InitItemVars ==
    /\ langfuse_item \in ItemRefs
    /\ trace \in Traces \cup {None}
    /\ item = None
    /\ result_set = None
    /\ result = None

FromLangfuseItem ==
    /\ item = None
    /\ result = None
    /\ LET r == from_langfuse_item(langfuse_item, trace)
       IN  IF r.raised # None
           THEN /\ result' = [op |-> "from_langfuse_item", raised |-> r.raised]
                /\ item' = item
           ELSE /\ result' = [op |-> "from_langfuse_item", raised |-> None]
                /\ item' = r.value
    /\ UNCHANGED <<langfuse_item, trace, result_set>>

IsSuccess(s) ==
    /\ item # None
    /\ result' = [op |-> "is_success", arg |-> s, value |-> is_success(item, s)]
    /\ UNCHANGED <<langfuse_item, trace, item, result_set>>

ToJunit(s) ==
    /\ item # None
    /\ result' = [op |-> "to_junit", arg |-> s, value |-> to_junit(item, s)]
    /\ UNCHANGED <<langfuse_item, trace, item, result_set>>

---------------------------------------------------------------------------
(* The remote service as the report commands see it *)

DatasetNames == { "ds" }
RunNames == { "r1", "r2" }
Keys == DatasetNames \X RunNames
SuccessScoreNames == { <<"p">>, <<"a", "_", "b", "_", "c">> }
OutputFiles == { None, [path |-> "report.out"] }

TracePass ==
    [data |-> [total_cost |-> None, latency |-> None,
               scores |-> << [name |-> <<"p">>, value |-> Num(1)],
                             [name |-> <<"a", ".", "b", ".", "c">>, value |-> Float(1)] >>]]
TraceFail ==
    [data |-> [total_cost |-> Float(0), latency |-> Float(Scale),
               scores |-> << [name |-> <<"a", ".", "b", ".", "c">>, value |-> None],
                             [name |-> <<"p">>, value |-> Float(0)] >>]]
\* what langfuse.fetch_trace answers for the i-th item of a run: nothing, or
\* the item's trace (items alternate between a passing and a failing trace)
FetchTraceResults(i) == { None, IF i % 2 = 1 THEN TracePass ELSE TraceFail }

\* what langfuse.get_dataset_run does: raise one of three errors, or return
\* a run whose dataset_run_items is None or a list
RunResults ==
    { [kind |-> "NotFoundError"],
      [kind |-> "UnauthorizedError", message |-> "Invalid credentials"],
      [kind |-> "Exception", message |-> "Network timeout"],
      [kind |-> "run", dataset_run_items |-> None] }
    \cup { [kind |-> "run", dataset_run_items |-> PyList(RunItems(k))] : k \in 0..MaxItems }

\* the remote's answers to one command: the run lookup and, per item of the
\* run in order, the trace lookup
Envs ==
    UNION { { [run |-> r, traces |-> t] :
                t \in { f \in [1..(IF r.kind = "run" /\ r.dataset_run_items # None
                                     THEN Len(r.dataset_run_items.list) ELSE 0)
                               -> UNION { FetchTraceResults(i) : i \in 1..MaxItems }] :
                          \A i \in DOMAIN f : f[i] \in FetchTraceResults(i) } } :
            r \in RunResults }

---------------------------------------------------------------------------
(* src/src/reporting.py: _get_dataset_run_items *)

maxsize == 128      \* functools.lru_cache default

Call(fn, args, returned) == [fn |-> fn, args |-> args, returned |-> returned]
secho(text) == [fg |-> "red", lines |-> << ident(0, text) >>]
echo(lines) == [fg |-> "", lines |-> lines]

\* variant: an item whose trace is missing is skipped
RECURSIVE FetchItems_skip(_, _, _, _)
FetchItems_skip(items, traces, i, acc) ==
    IF i > Len(items)
    THEN [raised |-> None, value |-> PyList(acc.value), calls |-> acc.calls]
    ELSE LET r == from_langfuse_item(items[i], traces[i])
             c == Append(acc.calls, Call("fetch_trace", <<items[i].trace_id>>, traces[i]))
         IN  FetchItems_skip(items, traces, i + 1,
                             [value |-> IF r.raised # None THEN acc.value
                                        ELSE Append(acc.value, r.value),
                              calls |-> c])

\* the list comprehension over dataset_run_items: one fetch_trace per item, in
\* order, stopping at the first from_langfuse_item that raises
RECURSIVE FetchItems(_, _, _, _)
FetchItems(items, traces, i, acc) ==
    IF i > Len(items)
    THEN [raised |-> None, value |-> PyList(acc.value), calls |-> acc.calls]
    ELSE LET r == from_langfuse_item(items[i], traces[i])
             c == Append(acc.calls, Call("fetch_trace", <<items[i].trace_id>>, traces[i]))
         IN  IF r.raised # None
             THEN [raised |-> r.raised, value |-> None, calls |-> c]
             ELSE FetchItems(items, traces, i + 1,
                             [value |-> Append(acc.value, r.value), calls |-> c])

\* variant: a missing run yields an empty list
GetDatasetRunItemsBody_emptylist(dataset_name, run_name, env) ==
    LET lookup == << Call("get_dataset_run", <<dataset_name, run_name>>, env.run) >>
    IN  IF env.run.kind = "NotFoundError"
        THEN [raised |-> None, value |-> PyList(<<>>), calls |-> lookup,
              echoed |-> << secho(<<"Run ", run_name, " not found in dataset ", dataset_name>>) >>]
        ELSE IF env.run.kind # "run"
        THEN [raised |-> [error |-> env.run.kind, message |-> <<env.run.message>>],
              value |-> None, calls |-> lookup, echoed |-> <<>>]
        ELSE IF env.run.dataset_run_items = None
        THEN [raised |-> None, value |-> None, calls |-> lookup,
              echoed |-> << secho(<<"Run ", run_name, " has no items">>) >>]
        ELSE LET f == FetchItems(env.run.dataset_run_items.list, env.traces, 1,
                                 [value |-> <<>>, calls |-> lookup])
             IN  [raised |-> f.raised, value |-> f.value, calls |-> f.calls,
                  echoed |-> <<>>]

\* variant: `if not dataset_run_items` instead of `is None`
GetDatasetRunItemsBody_falsy(dataset_name, run_name, env) ==
    LET lookup == << Call("get_dataset_run", <<dataset_name, run_name>>, env.run) >>
    IN  IF env.run.kind = "NotFoundError"
        THEN [raised |-> None, value |-> None, calls |-> lookup,
              echoed |-> << secho(<<"Run ", run_name, " not found in dataset ", dataset_name>>) >>]
        ELSE IF env.run.kind # "run"
        THEN [raised |-> [error |-> env.run.kind, message |-> <<env.run.message>>],
              value |-> None, calls |-> lookup, echoed |-> <<>>]
        ELSE IF env.run.dataset_run_items = None \/ env.run.dataset_run_items = PyList(<<>>)
        THEN [raised |-> None, value |-> None, calls |-> lookup,
              echoed |-> << secho(<<"Run ", run_name, " has no items">>) >>]
        ELSE LET f == FetchItems(env.run.dataset_run_items.list, env.traces, 1,
                                 [value |-> <<>>, calls |-> lookup])
             IN  [raised |-> f.raised, value |-> f.value, calls |-> f.calls,
                  echoed |-> <<>>]

\* the body of _get_dataset_run_items, the remote answering with env
GetDatasetRunItemsBody(dataset_name, run_name, env) ==
    LET lookup == << Call("get_dataset_run", <<dataset_name, run_name>>, env.run) >>
    IN  IF env.run.kind = "NotFoundError"
        THEN [raised |-> None, value |-> None, calls |-> lookup,
              echoed |-> << secho(<<"Run ", run_name, " not found in dataset ", dataset_name>>) >>]
        ELSE IF env.run.kind # "run"
        THEN [raised |-> [error |-> env.run.kind, message |-> <<env.run.message>>],
              value |-> None, calls |-> lookup, echoed |-> <<>>]
        ELSE IF env.run.dataset_run_items = None
        THEN [raised |-> None, value |-> None, calls |-> lookup,
              echoed |-> << secho(<<"Run ", run_name, " has no items">>) >>]
        ELSE LET f == FetchItems(env.run.dataset_run_items.list, env.traces, 1,
                                 [value |-> <<>>, calls |-> lookup])
             IN  [raised |-> f.raised, value |-> f.value, calls |-> f.calls,
                  echoed |-> <<>>]

CacheIndex(c, key) ==
    IF \E i \in DOMAIN c : c[i].key = key
    THEN CHOOSE i \in DOMAIN c : c[i].key = key
    ELSE 0

Remove(s, i) == [j \in 1..(Len(s) - 1) |-> IF j < i THEN s[j] ELSE s[j + 1]]

\* variant: no memo, the body runs on every call
get_dataset_run_items_nomemo(c, dataset_name, run_name, env) ==
    LET b == GetDatasetRunItemsBody(dataset_name, run_name, env)
    IN  [raised |-> b.raised, value |-> b.value, calls |-> b.calls,
         echoed |-> b.echoed, cache |-> c]

\* variant: a call that raises is stored in the memo as the absent result
get_dataset_run_items_memoerror(c, dataset_name, run_name, env) ==
    LET key == <<dataset_name, run_name>>
        i == CacheIndex(c, key)
    IN  IF i # 0
        THEN [raised |-> None, value |-> c[i].value, calls |-> <<>>, echoed |-> <<>>,
              cache |-> Append(Remove(c, i), c[i])]
        ELSE LET b == GetDatasetRunItemsBody(dataset_name, run_name, env)
                 entry == [key |-> key, value |-> b.value]
             IN  [raised |-> b.raised, value |-> b.value, calls |-> b.calls,
                  echoed |-> b.echoed,
                  cache |-> IF Len(c) >= maxsize THEN Append(Tail(c), entry)
                            ELSE Append(c, entry)]

\* @lru_cache: a hit returns the stored value and makes the entry the most
\* recent; a miss runs the body, stores what it returns (nothing if it
\* raises) and evicts the least recent entry when the cache is full
_get_dataset_run_items(c, dataset_name, run_name, env) ==
    LET key == <<dataset_name, run_name>>
        i == CacheIndex(c, key)
    IN  IF i # 0
        THEN [raised |-> None, value |-> c[i].value, calls |-> <<>>, echoed |-> <<>>,
              cache |-> Append(Remove(c, i), c[i])]
        ELSE LET b == GetDatasetRunItemsBody(dataset_name, run_name, env)
                 entry == [key |-> key, value |-> b.value]
             IN  [raised |-> b.raised, value |-> b.value, calls |-> b.calls,
                  echoed |-> b.echoed,
                  cache |-> IF b.raised # None THEN c
                            ELSE IF Len(c) >= maxsize THEN Append(Tail(c), entry)
                            ELSE Append(c, entry)]

---------------------------------------------------------------------------
(* src/src/reporting.py: the report commands *)

Handle(output_file, closed, written) ==
    [path |-> output_file.path, closed |-> closed, written |-> written]

\* variant: the header counts the passing items only
JunitDocument_passing(generic_items, success_score_name) ==
    << echo(<< ident(0, <<"<?xml version='1.0' encoding='UTF-8'?>">>),
               ident(0, <<"<testsuite name='langfuse-eval' tests='",
                          ToString(Cardinality({ i \in DOMAIN generic_items :
                                       is_success(generic_items[i], success_score_name) })),
                          "'>">>) >>) >>
    \o [i \in DOMAIN generic_items |-> echo(to_junit(generic_items[i], success_score_name))]
    \o << echo(<< ident(0, <<"</testsuite>">>) >>) >>

\* variant: the cases are written last item first
JunitDocument_reversed(generic_items, success_score_name) ==
    << echo(<< ident(0, <<"<?xml version='1.0' encoding='UTF-8'?>">>),
               ident(0, <<"<testsuite name='langfuse-eval' tests='",
                          ToString(Len(generic_items)), "'>">>) >>) >>
    \o [i \in DOMAIN generic_items |-> echo(to_junit(generic_items[Len(generic_items) + 1 - i], success_score_name))]
    \o << echo(<< ident(0, <<"</testsuite>">>) >>) >>

\* the three click.echo calls of produce_junit_report
JunitDocument(generic_items, success_score_name) ==
    << echo(<< ident(0, <<"<?xml version='1.0' encoding='UTF-8'?>">>),
               ident(0, <<"<testsuite name='langfuse-eval' tests='",
                          ToString(Len(generic_items)), "'>">>) >>) >>
    \o [i \in DOMAIN generic_items |-> echo(to_junit(generic_items[i], success_score_name))]
    \o << echo(<< ident(0, <<"</testsuite>">>) >>) >>

\* variant: `aggregate_scores[name] = [value]` instead of append
AggAppend_overwrite(agg, name, value) ==
    IF \E i \in DOMAIN agg : agg[i].name = name
    THEN [i \in DOMAIN agg |->
            IF agg[i].name = name
            THEN [name |-> name, values |-> <<value>>]
            ELSE agg[i]]
    ELSE Append(agg, [name |-> name, values |-> <<value>>])

\* variant: the mapping is keyed by the sanitized name
AggAppend_sanitized(agg, name, value) ==
    LET key == Replace(name) IN
    IF \E i \in DOMAIN agg : agg[i].name = key
    THEN [i \in DOMAIN agg |->
            IF agg[i].name = key
            THEN [name |-> key, values |-> Append(agg[i].values, value)]
            ELSE agg[i]]
    ELSE Append(agg, [name |-> key, values |-> <<value>>])

\* aggregate_scores[name].append(value) on a defaultdict(list): a dict keeps
\* its keys in insertion order
AggAppend(agg, name, value) ==
    IF \E i \in DOMAIN agg : agg[i].name = name
    THEN [i \in DOMAIN agg |->
            IF agg[i].name = name
            THEN [name |-> name, values |-> Append(agg[i].values, value)]
            ELSE agg[i]]
    ELSE Append(agg, [name |-> name, values |-> <<value>>])

RECURSIVE AggScores(_, _)
AggScores(agg, scores) ==
    IF scores = <<>> THEN agg
    ELSE AggScores(AggAppend(agg, Head(scores)["name"], Head(scores)["value"]), Tail(scores))

RECURSIVE Aggregate(_, _)
Aggregate(agg, generic_items) ==
    IF generic_items = <<>> THEN agg
    ELSE Aggregate(AggScores(agg, Head(generic_items).scores), Tail(generic_items))

RECURSIVE Sum(_)
Sum(values) == IF values = <<>> THEN 0 ELSE Head(values).float + Sum(Tail(values))

\* str(total / count) for total in units of 1/Scale; "0" for the int 0
QuotientStr(total, count) ==
    IF count = 0 THEN "0"
    ELSE LET den == count * Scale
             a == Abs(total)
             frac == Fraction(a % den, den, FractionDigits)
         IN  (IF total < 0 THEN "-" ELSE "") \o ToString(a \div den) \o "."
                \o (IF frac = "" THEN "0" ELSE frac)

ScoreSection(entry) ==
    LET score_values == entry.values
    IN  echo(<< ident(0, <<"- ">> \o entry.name),
                ident(2, <<"avg: ", QuotientStr(Sum(score_values), Len(score_values))>>),
                ident(2, <<"count: ", ToString(Len(score_values))>>),
                ident(2, <<"sum: ", PyStr(Float(Sum(score_values)))>>) >>)

TextDocument(generic_items, run_name) ==
    LET aggregate_scores == Aggregate(<<>>, generic_items)
    IN  << echo(<< ident(0, <<"# Eval ", run_name>>) >>),
           echo(<< ident(0, <<ToString(Len(generic_items)), " items">>), ident(0, <<>>) >>),
           echo(<< ident(0, <<"# All scores">>), ident(0, <<>>) >>) >>
        \o [i \in DOMAIN aggregate_scores |-> ScoreSection(aggregate_scores[i])]

Request(kind, dataset_name, run_name, success_score_name, output_file, g) ==
    [kind |-> kind, dataset_name |-> dataset_name, run_name |-> run_name,
     success_score_name |-> success_score_name, output_file |-> output_file,
     repeat |-> first[<<dataset_name, run_name>>] # None,
     after_abort |-> /\ req # None /\ req.raised # None
                     /\ req.raised.error = "ValueError"
                     /\ req.dataset_name = dataset_name /\ req.run_name = run_name,
     raised |-> g.raised, generic_items |-> g.value]

\* bookkeeping shared by both commands: the memo, the calls log, and the
\* record of the first fetch made for the pair
Fetched(kind, dataset_name, run_name, success_score_name, output_file, g) ==
    LET key == <<dataset_name, run_name>>
    IN  /\ cache' = g.cache
        /\ calls' = g.calls
        /\ req' = Request(kind, dataset_name, run_name, success_score_name, output_file, g)
        /\ first' = IF first[key] # None THEN first
                    ELSE IF g.raised # None
                    THEN [first EXCEPT ![key] = [raised |-> TRUE]]
                    ELSE [first EXCEPT ![key] = [raised |-> FALSE, generic_items |-> g.value,
                                                 calls |-> g.calls]]

\* the order in which a command opens files, calls the remote, prints and
\* closes: one entry per operation
Opened == << "open" >>
Closed == << "close" >>
Fetching(g) ==
    [i \in DOMAIN g.calls |-> g.calls[i].fn] \o [i \in DOMAIN g.echoed |-> "secho"]
Echoing(doc) == [i \in DOMAIN doc |-> "echo"]

\* produce_junit_report from the memo c, the remote answering with env: what
\* the fetch gave and what the command printed, opened, wrote and closed
JunitReport(c, dataset_name, run_name, success_score_name, output_file, env) ==
    LET g == _get_dataset_run_items(c, dataset_name, run_name, env)
        opening == IF output_file = None THEN <<>> ELSE Opened
    IN  IF g.raised # None \/ g.value = None
        THEN [g |-> g, stdout |-> g.echoed,
              fds |-> IF output_file = None THEN <<>>
                      ELSE << Handle(output_file, FALSE, <<>>) >>,
              events |-> opening \o Fetching(g)]
        ELSE LET doc == JunitDocument(g.value.list, success_score_name)
             IN  IF output_file = None
                 THEN [g |-> g, stdout |-> g.echoed \o doc, fds |-> <<>>,
                       events |-> Fetching(g) \o Echoing(doc)]
                 ELSE [g |-> g, stdout |-> g.echoed,
                       fds |-> << Handle(output_file, TRUE, doc) >>,
                       events |-> Opened \o Fetching(g) \o Echoing(doc) \o Closed]

\* variant: only the scores named success_score_name are aggregated
TextReport_successonly(c, dataset_name, run_name, success_score_name, output_file, env) ==
    LET g == _get_dataset_run_items(c, dataset_name, run_name, env)
        opening == IF output_file = None THEN <<>> ELSE Opened
    IN  IF g.raised # None \/ g.value = None
        THEN [g |-> g, stdout |-> g.echoed,
              fds |-> IF output_file = None THEN <<>>
                      ELSE << Handle(output_file, FALSE, <<>>) >>,
              events |-> opening \o Fetching(g)]
        ELSE LET doc == TextDocument([i \in DOMAIN g.value.list |->
                                        [g.value.list[i] EXCEPT !.scores =
                                           SelectSeq(@, LAMBDA sc : sc["name"] = success_score_name)]],
                                     run_name)
             IN  IF output_file = None
                 THEN [g |-> g, stdout |-> g.echoed \o doc, fds |-> <<>>,
                       events |-> Fetching(g) \o Echoing(doc)]
                 ELSE [g |-> g, stdout |-> g.echoed,
                       fds |-> << Handle(output_file, FALSE, <<>>),
                                  Handle(output_file, TRUE, doc) >>,
                       events |-> Opened \o Fetching(g) \o Opened \o Echoing(doc) \o Closed]

\* produce_text_report likewise; the file is opened before the fetch and
\* again before the first echo, and only the second handle is closed
TextReport(c, dataset_name, run_name, success_score_name, output_file, env) ==
    LET g == _get_dataset_run_items(c, dataset_name, run_name, env)
        opening == IF output_file = None THEN <<>> ELSE Opened
    IN  IF g.raised # None \/ g.value = None
        THEN [g |-> g, stdout |-> g.echoed,
              fds |-> IF output_file = None THEN <<>>
                      ELSE << Handle(output_file, FALSE, <<>>) >>,
              events |-> opening \o Fetching(g)]
        ELSE LET doc == TextDocument(g.value.list, run_name)
             IN  IF output_file = None
                 THEN [g |-> g, stdout |-> g.echoed \o doc, fds |-> <<>>,
                       events |-> Fetching(g) \o Echoing(doc)]
                 ELSE [g |-> g, stdout |-> g.echoed,
                       fds |-> << Handle(output_file, FALSE, <<>>),
                                  Handle(output_file, TRUE, doc) >>,
                       events |-> Opened \o Fetching(g) \o Opened \o Echoing(doc) \o Closed]

ProduceJunitReport(dataset_name, run_name, success_score_name, output_file, env) ==
    \E o \in { JunitReport(cache, dataset_name, run_name, success_score_name, output_file, env) } :
        /\ Fetched("junit", dataset_name, run_name, success_score_name, output_file, o.g)
        /\ stdout' = o.stdout
        /\ fds' = o.fds
        /\ events' = o.events
        /\ UNCHANGED itemVars

ProduceTextReport(dataset_name, run_name, success_score_name, output_file, env) ==
    \E o \in { TextReport(cache, dataset_name, run_name, success_score_name, output_file, env) } :
        /\ Fetched("text", dataset_name, run_name, success_score_name, output_file, o.g)
        /\ stdout' = o.stdout
        /\ fds' = o.fds
        /\ events' = o.events
        /\ UNCHANGED itemVars

\* the remote is consulted only on a cache miss
EnvsFor(dataset_name, run_name) ==
    IF CacheIndex(cache, <<dataset_name, run_name>>) # 0
    THEN { [run |-> [kind |-> "NotFoundError"], traces |-> <<>>] }
    ELSE Envs

---------------------------------------------------------------------------
(* Specifications *)

InitReportVars ==
    /\ cache = <<>>
    /\ req = None
    /\ calls = <<>>
    /\ stdout = <<>>
    /\ fds = <<>>
    /\ events = <<>>
    /\ first = [k \in Keys |-> None]

\* Spec: a process issuing report commands
Init ==
    /\ InitReportVars
    /\ langfuse_item = None /\ trace = None /\ item = None
    /\ result_set = None /\ result = None

Next ==
    \/ \E d \in DatasetNames, r \in RunNames, s \in SuccessScoreNames, o \in OutputFiles :
         \E env \in EnvsFor(d, r) : ProduceJunitReport(d, r, s, o, env)
    \/ \E d \in DatasetNames, r \in RunNames, s \in SuccessScoreNames, o \in OutputFiles :
         \E env \in EnvsFor(d, r) : ProduceTextReport(d, r, s, o, env)

Spec == Init /\ [][Next]_vars

\* SpecItem: one GenericItemInfo built from a remote trace, then queried
InitItem ==
    /\ InitItemVars
    /\ InitReportVars

NextItem ==
    \/ FromLangfuseItem /\ UNCHANGED reportVars
    \/ \E s \in ScoreNames : IsSuccess(s) /\ UNCHANGED reportVars
    \/ \E s \in ScoreNames : ToJunit(s) /\ UNCHANGED reportVars

SpecItem == InitItem /\ [][NextItem]_vars

\* SpecMany: a process that asks for more runs than the memo holds.  Run r1
\* has one item; the other runs are asked for one after the other, each for
\* the first time when all runs before it have been asked for, and are empty.
RunName(i) == "r" \o ToString(i)
ManyRunNames == { RunName(i) : i \in 1..(maxsize + 1) }
ManyKeys == DatasetNames \X ManyRunNames
Asked == Cardinality({ k \in ManyKeys : first[k] # None })
NextRuns == { RunName(1) } \cup (IF Asked <= maxsize THEN { RunName(Asked + 1) } ELSE {})
ManyEnv(run_name) ==
    IF run_name = RunName(1)
    THEN [run |-> [kind |-> "run", dataset_run_items |-> PyList(RunItems(1))],
          traces |-> << TracePass >>]
    ELSE [run |-> [kind |-> "run", dataset_run_items |-> PyList(<<>>)], traces |-> <<>>]

InitMany ==
    /\ cache = <<>>
    /\ req = None
    /\ calls = <<>>
    /\ stdout = <<>>
    /\ fds = <<>>
    /\ events = <<>>
    /\ first = [k \in ManyKeys |-> None]
    /\ langfuse_item = None /\ trace = None /\ item = None
    /\ result_set = None /\ result = None

\* the first run may also be missing on the remote when it is looked up
ManyEnvs(run_name) ==
    { ManyEnv(run_name) }
    \cup (IF run_name = RunName(1)
           THEN { [run |-> [kind |-> "NotFoundError"], traces |-> <<>>] }
           ELSE {})

NextMany ==
    \/ \E d \in DatasetNames, r \in NextRuns :
         \E env \in ManyEnvs(r) : ProduceJunitReport(d, r, <<"p">>, None, env)
    \/ \E d \in DatasetNames :
         \E env \in ManyEnvs(RunName(1)) :
            ProduceTextReport(d, RunName(1), <<"p">>, None, env)

SpecMany == InitMany /\ [][NextMany]_vars

\* SpecSummary: the summary document of one result set
Summarize(run_name) ==
    /\ result_set # None
    /\ result' = [op |-> "summary", arg |-> run_name,
                  aggregate |-> Aggregate(<<>>, result_set.list),
                  value |-> TextDocument(result_set.list, run_name)]
    /\ UNCHANGED <<langfuse_item, trace, item, result_set>>

InitSummary ==
    /\ langfuse_item = None /\ trace = None /\ item = None
    /\ result_set \in { PyList(rs) : rs \in ResultSets }
    /\ result = None
    /\ InitReportVars

NextSummary == \E r \in RunNames : Summarize(r) /\ UNCHANGED reportVars

SpecSummary == InitSummary /\ [][NextSummary]_vars

---------------------------------------------------------------------------
(* Observations used by the properties *)

\* a record of e.scores named s whose value is exactly 1
HasPassingRecord(e, s) ==
    { i \in DOMAIN e.scores : e.scores[i].name = s /\ e.scores[i].value = Float(Scale) } # {}

IsFailureMarker(l) == l.text[1] = "<failure message='Test case failed. "
FailureMarkers(lines) == { i \in DOMAIN lines : IsFailureMarker(lines[i]) }

\* everything the last command wrote as report text, on stdout or to a file
EchoedOn(chunks) == SelectSeq(chunks, LAMBDA c : c.fg = "")
RECURSIVE WrittenTo(_)
WrittenTo(handles) ==
    IF handles = <<>> THEN <<>> ELSE Head(handles).written \o WrittenTo(Tail(handles))
Written == EchoedOn(stdout) \o WrittenTo(fds)
Diagnostics == SelectSeq(stdout, LAMBDA c : c.fg = "red")

HeaderChunk(n) ==
    [fg |-> "", lines |-> << [indent |-> 0, text |-> <<"<?xml version='1.0' encoding='UTF-8'?>">>],
                             [indent |-> 0, text |-> <<"<testsuite name='langfuse-eval' tests='",
                                                        ToString(n), "'>">>] >>]
TrailerChunk == [fg |-> "", lines |-> << [indent |-> 0, text |-> <<"</testsuite>">>] >>]
IsCaseChunk(c) ==
    /\ c.lines[1].text[1] = "<testcase classname='langfuse' name='"
    /\ c.lines[Len(c.lines)].text = <<"</testcase>">>

RunLookups(cs) == SelectSeq(cs, LAMBDA c : c.fn = "get_dataset_run")
TraceLookups(cs) == SelectSeq(cs, LAMBDA c : c.fn = "fetch_trace")
LookedUp == calls # <<>> /\ calls[1].fn = "get_dataset_run"
RunAnswer == calls[1].returned

---------------------------------------------------------------------------
(* Properties *)

\* C1: is_success(s) is true exactly when scores holds a record named s (the
\* raw name) whose value is exactly 1; absent name, empty scores and records
\* named s with other values (0, 0.5, negative) all give false, and one
\* record with value 1 among several named s is enough.
C1_IsSuccessIffRecordWithOne ==
    (result # None /\ result.op = "is_success") =>
        /\ result.value = HasPassingRecord(item, result.arg)
        /\ item.scores = <<>> => result.value = FALSE
        /\ (\A i \in DOMAIN item.scores : item.scores[i].name # result.arg)
              => result.value = FALSE
        /\ (\A i \in DOMAIN item.scores :
              item.scores[i].name = result.arg => item.scores[i].value # Float(Scale))
              => result.value = FALSE

\* two records named s, the first with a value other than 1, the second 1
C1_Witness ==
    /\ result # None /\ result.op = "is_success" /\ result.value = TRUE
    /\ Len(item.scores) = 2
    /\ item.scores[1].name = result.arg /\ item.scores[1].value = Float(1)
    /\ item.scores[2].name = result.arg /\ item.scores[2].value = Float(Scale)

\* C2: the case block of to_junit(s) has a failure marker exactly when the
\* item is not a success for s; then there is exactly one, right after the
\* line closing the properties block and right before the case trailer, and
\* its message names s unsanitized.
C2_FailureMarkerIffNotSuccess ==
    (result # None /\ result.op = "to_junit") =>
        LET lines == result.value
            m == FailureMarkers(lines)
        IN  /\ (m = {}) = HasPassingRecord(item, result.arg)
            /\ Cardinality(m) <= 1
            /\ \A i \in m :
                 /\ i = Len(lines) - 1
                 /\ lines[i - 1] = [indent |-> 4, text |-> <<"</properties>">>]
                 /\ lines[i + 1] = [indent |-> 0, text |-> <<"</testcase>">>]
                 /\ lines[i].text = <<"<failure message='Test case failed. ">>
                        \o result.arg
                        \o <<" is either missing or its value is not 1.0' />">>

\* a failing item whose only score is named like the sanitized form of s
C2_Witness ==
    /\ result # None /\ result.op = "to_junit"
    /\ result.arg = <<"a", ".", "b", ".", "c">>
    /\ Len(item.scores) = 1
    /\ item.scores[1].name = <<"a", "_", "b", "_", "c">> /\ item.scores[1].value = Float(Scale)
    /\ FailureMarkers(result.value) # {}

\* C3: a document emitted by produce_junit_report declares in its header as
\* many cases as the fetched result set has items, and has that many case
\* blocks between header and trailer; a present but empty items collection
\* gives a document with count 0, no case block and no trace lookup.
C3_CaseCountMatchesItems ==
    (req # None /\ req.kind = "junit") =>
        /\ Written # <<>> =>
             /\ req.generic_items # None
             /\ LET n == Len(req.generic_items.list)
                IN  /\ Len(Written) = n + 2
                    /\ Written[1] = HeaderChunk(n)
                    /\ Written[n + 2] = TrailerChunk
                    /\ \A i \in 2..(n + 1) : IsCaseChunk(Written[i])
                    /\ (LookedUp /\ req.raised = None)
                          => n = Len(RunAnswer.dataset_run_items.list)
        /\ (LookedUp /\ RunAnswer = [kind |-> "run", dataset_run_items |-> PyList(<<>>)])
              => /\ Written = << HeaderChunk(0), TrailerChunk >>
                 /\ TraceLookups(calls) = <<>>

C3_Witness ==
    /\ req # None /\ req.kind = "junit" /\ LookedUp
    /\ req.generic_items # None /\ Len(req.generic_items.list) = 2
    /\ Len(Written) = 4

ReqKey == <<req.dataset_name, req.run_name>>

\* C4: when the first request for a (dataset, run) pair fetched its items, a
\* later request for the pair (either report kind) contacts the remote not at
\* all, so that both together issued exactly one run lookup and one trace
\* lookup per item of the run, and it renders the item sequence of the first.
C4_SecondRequestUsesMemo ==
    (req # None /\ req.repeat /\ ~ first[ReqKey].raised
                /\ first[ReqKey].generic_items # None) =>
        LET both == first[ReqKey].calls \o calls
            run_items == both[1].returned.dataset_run_items.list
        IN  /\ Len(RunLookups(both)) = 1
            /\ both[1].fn = "get_dataset_run"
            /\ both[1].args = ReqKey
            /\ Len(TraceLookups(both)) = Len(run_items)
            /\ \A i \in DOMAIN run_items :
                 TraceLookups(both)[i].args = << run_items[i].trace_id >>
            /\ req.raised = None
            /\ req.generic_items = first[ReqKey].generic_items

C4_Witness ==
    /\ req # None /\ req.repeat /\ req.kind = "text"
    /\ ~ first[ReqKey].raised
    /\ first[ReqKey].generic_items # None
    /\ Len(first[ReqKey].generic_items.list) = 2
    /\ Len(Written) > 0

NotFoundMessage ==
    [fg |-> "red", lines |-> << [indent |-> 0,
        text |-> <<"Run ", req.run_name, " not found in dataset ", req.dataset_name>>] >>]

\* C5: when the run lookup reports that the run does not exist, the command
\* raises nothing, prints one diagnostic naming the run and the dataset, and
\* writes no part of a report, neither on stdout nor to a file.
C5_RunNotFoundIsQuiet ==
    (req # None /\ LookedUp /\ RunAnswer.kind = "NotFoundError") =>
        /\ req.raised = None
        /\ req.generic_items = None
        /\ stdout = << NotFoundMessage >>
        /\ Written = <<>>

C5_Witness ==
    /\ req # None /\ LookedUp /\ RunAnswer.kind = "NotFoundError"
    /\ req.kind = "text" /\ req.output_file # None
    /\ fds # <<>>

\* C6: when the run lookup fails with an authorization failure, the command
\* raises nothing, prints a message about the credentials, gets the absent
\* result and emits no report.
C6_UnauthorizedIsQuiet ==
    (req # None /\ LookedUp /\ RunAnswer.kind = "UnauthorizedError") =>
        /\ req.raised = None
        /\ req.generic_items = None
        /\ Len(Diagnostics) = 1
        /\ Written = <<>>

\* C7: when the run lookup fails with any other failure, the command raises
\* nothing, prints a message containing the failure's description, gets the
\* absent result and emits no report.
C7_OtherFailureIsQuiet ==
    (req # None /\ LookedUp /\ RunAnswer.kind = "Exception") =>
        /\ req.raised = None
        /\ req.generic_items = None
        /\ Len(Diagnostics) = 1
        /\ \E j \in DOMAIN Diagnostics[1].lines[1].text :
             Diagnostics[1].lines[1].text[j] = RunAnswer.message
        /\ Written = <<>>

MissingTraces == { i \in DOMAIN calls : calls[i].fn = "fetch_trace" /\ calls[i].returned = None }

\* C8: when the trace lookup of some item returns nothing, the command ends
\* with the error from_langfuse_item raises, which names that trace id, and
\* no part of a report has been written, also when earlier items of the run
\* had their traces fetched.
C8_MissingTraceAborts ==
    (req # None /\ MissingTraces # {}) =>
        /\ \A i \in MissingTraces :
             req.raised = [error |-> "ValueError",
                           message |-> <<"Trace ", calls[i].args[1], " not found">>]
        /\ req.generic_items = None
        /\ Written = <<>>
        /\ stdout = <<>>

\* the second item's trace is missing, the first one's was fetched
C8_Witness ==
    /\ req # None /\ Len(calls) = 3
    /\ calls[2].fn = "fetch_trace" /\ calls[2].returned # None
    /\ calls[3].fn = "fetch_trace" /\ calls[3].returned = None
    /\ req.kind = "junit"

NoItemsMessage ==
    [fg |-> "red", lines |-> << [indent |-> 0, text |-> <<"Run ", req.run_name, " has no items">>] >>]

\* C9: a run whose items collection is absent makes the fetch print a message
\* naming the run, look up no trace and return the absent result, so no
\* report is emitted; a present but empty collection makes it return the
\* empty sequence, and a report is emitted.
C9_AbsentItemsVersusEmpty ==
    (req # None /\ LookedUp /\ RunAnswer.kind = "run") =>
        /\ RunAnswer.dataset_run_items = None =>
             /\ stdout = << NoItemsMessage >>
             /\ TraceLookups(calls) = <<>>
             /\ req.raised = None
             /\ req.generic_items = None
             /\ Written = <<>>
        /\ RunAnswer.dataset_run_items = PyList(<<>>) =>
             /\ req.raised = None
             /\ req.generic_items = PyList(<<>>)
             /\ Diagnostics = <<>>
             /\ Written # <<>>

C9_Witness ==
    /\ req # None /\ LookedUp /\ RunAnswer.kind = "run"
    /\ RunAnswer.dataset_run_items = None
    /\ req.kind = "junit"

\* C10: the scores of an item built by from_langfuse_item are the entries of
\* the trace's score list whose value is not absent, in their original order;
\* no score of the item has an absent value, and entries of value 0 are kept.
C10_ScoresAreNonNullSubsequence ==
    (item # None) =>
        /\ item.scores = SelectSeq(trace.data.scores, LAMBDA sc : sc.value # None)
        /\ \A i \in DOMAIN item.scores : item.scores[i].value # None
        /\ Cardinality({ i \in DOMAIN item.scores : item.scores[i].value = Float(0) })
             = Cardinality({ i \in DOMAIN trace.data.scores :
                               trace.data.scores[i].value = Float(0) })

\* a null-valued entry is dropped, the zero-valued one after it is kept
C10_Witness ==
    /\ item # None
    /\ Len(trace.data.scores) = 2
    /\ trace.data.scores[1].value = None
    /\ trace.data.scores[2].value = Float(0)
    /\ Len(item.scores) = 1


CostLines(lines) ==
    { i \in DOMAIN lines : lines[i].text[1] = "<property name='evals.cost' value='" }

\* C11: a case block has a cost property exactly when the item's cost is not
\* absent (a cost of 0 is emitted, an absent cost gives no cost property, not
\* one with a null value); the time attribute of the case header is always
\* there, and reads None when the duration is absent.
C11_CostIffPresentDurationAlways ==
    (result # None /\ result.op = "to_junit") =>
        LET lines == result.value
        IN  /\ (CostLines(lines) # {}) = (item.cost # None)
            /\ Cardinality(CostLines(lines)) <= 1
            /\ \A i \in CostLines(lines) :
                 /\ Len(lines[i].text) = 3
                 /\ lines[i].text[2] # "None"
                 /\ item.cost = Float(0) => lines[i].text[2] = "0.0"
            /\ Len(lines[1].text) = 5
            /\ lines[1].text[1] = "<testcase classname='langfuse' name='"
            /\ lines[1].text[3] = "' time='"
            /\ item.duration = None => lines[1].text[4] = "None"
            /\ item.duration # None => lines[1].text[4] # "None"

\* cost 0 and no duration
C11_Witness ==
    /\ result # None /\ result.op = "to_junit"
    /\ item.cost = Float(0) /\ item.duration = None
    /\ CostLines(result.value) # {}


\* the score records of a result set, items in order and scores in order
RECURSIVE AllScores(_)
AllScores(items) ==
    IF items = <<>> THEN <<>> ELSE Head(items).scores \o AllScores(Tail(items))
Named(records, name) == SelectSeq(records, LAMBDA sc : sc.name = name)
RECURSIVE Total(_)
Total(records) == IF records = <<>> THEN 0 ELSE Head(records).value.float + Total(Tail(records))

\* the per-score sections of a summary document, and what a section says
Sections(doc) == SubSeq(doc, 4, Len(doc))
SectionName(sec) == Tail(sec.lines[1].text)
ReportedCount(sec) == CHOOSE n \in 0..(MaxItems * MaxScores) : ToString(n) = sec.lines[3].text[2]
RECURSIVE CountsSum(_)
CountsSum(secs) == IF secs = <<>> THEN 0 ELSE ReportedCount(Head(secs)) + CountsSum(Tail(secs))

\* C12: every section of the summary reports as count the number of score
\* records of that name in the result set, as sum the sum of their values and
\* as mean the sum divided by the count; every result set (also the empty one
\* and items without scores) has a summary, no count is 0, and the counts add
\* up to the number of score records.
C12_SummaryStatistics ==
    (result # None /\ result.op = "summary") =>
        LET doc == result.value
            records == AllScores(result_set.list)
        IN  /\ Len(doc) >= 3
            /\ doc[2].lines[1].text = << ToString(Len(result_set.list)), " items" >>
            /\ \A k \in DOMAIN Sections(doc) :
                 LET sec == Sections(doc)[k]
                     mine == Named(records, SectionName(sec))
                     n == Len(mine)
                     t == Total(mine)
                 IN  /\ n >= 1
                     /\ sec.lines[3].text = << "count: ", ToString(n) >>
                     /\ sec.lines[4].text = << "sum: ", PyStr(Float(t)) >>
                     /\ sec.lines[2].text = << "avg: ", QuotientStr(t, n) >>
                     /\ (t % n = 0) => sec.lines[2].text[2] = PyStr(Float(t \div n))
            /\ CountsSum(Sections(doc)) = Len(records)

\* two names, one of them with two values from different items, and an item
\* without scores
C12_Witness ==
    /\ result # None /\ result.op = "summary"
    /\ Len(result_set.list) = 2
    /\ Len(Sections(result.value)) = 2
    /\ ReportedCount(Sections(result.value)[1]) = 2
    /\ result_set.list[1].scores # <<>>
    /\ result_set.list[2].scores # <<>>


\* the lines of a case block that are score properties, in order, and the
\* name each of them carries between "evals.scores." and ".value"
ScoreLines(lines) ==
    SelectSeq(lines, LAMBDA l : l.text[1] = "<property name='evals.scores.")
NameIn(l) == SubSeq(l.text, 2, Len(l.text) - 3)

\* C13: the name in the k-th score property of a case block is the k-th
\* score's name with every '.' replaced by '_' and all else unchanged; it
\* holds no '.', equals the name when that has no '.', and sanitizing it
\* again changes nothing.
C13_SanitizedScoreNames ==
    (result # None /\ result.op = "to_junit") =>
        LET props == ScoreLines(result.value)
        IN  /\ Len(props) = Len(item.scores)
            /\ \A k \in DOMAIN props :
                 LET name == item.scores[k].name
                     shown == NameIn(props[k])
                 IN  /\ Len(shown) = Len(name)
                     /\ \A j \in DOMAIN name :
                          shown[j] = (IF name[j] = "." THEN "_" ELSE name[j])
                     /\ \A j \in DOMAIN shown : shown[j] # "."
                     /\ (\A j \in DOMAIN name : name[j] # ".") => shown = name
                     /\ Replace(shown) = shown
                     /\ props[k].text[Len(props[k].text) - 2] = ".value' value='"

\* "a.b.c" is shown as "a_b_c"
C13_Witness ==
    /\ result # None /\ result.op = "to_junit"
    /\ Len(item.scores) = 2
    /\ item.scores[1].name = <<"a", ".", "b", ".", "c">>
    /\ item.scores[2].name = <<"p">>
    /\ NameIn(ScoreLines(result.value)[1]) = <<"a", "_", "b", "_", "c">>


Count(seq, x) == Cardinality({ i \in DOMAIN seq : seq[i] = x })

\* C14: a report command given an output file, whose fetch gave a result set,
\* opens the file exactly once and closes it exactly once before it returns,
\* and all report text is written to that one handle.
C14_OneOpenOneClose ==
    (req # None /\ req.output_file # None /\ req.raised = None /\ req.generic_items # None) =>
        /\ Count(events, "open") = 1
        /\ Count(events, "close") = 1
        /\ events[Len(events)] = "close"
        /\ Len(fds) = 1
        /\ fds[1].closed
        /\ fds[1].written = Written
        /\ Written # <<>>


\* C15: once a pair has been fetched with a result set, no later request for
\* the pair contacts the remote, whatever was requested in between.
C15_FetchedPairNeverRefetched ==
    (req # None /\ req.repeat /\ ~ first[ReqKey].raised
                /\ first[ReqKey].generic_items # None) =>
        /\ calls = <<>>
        /\ Count(events, "get_dataset_run") = 0
        /\ Count(events, "fetch_trace") = 0


RunHasItems == LookedUp /\ RunAnswer.kind = "run" /\ RunAnswer.dataset_run_items # None

\* C16 as stated: in a fetch that is not served from the memo, of a run with
\* an items collection, the run lookup comes first, then exactly one trace
\* lookup per item with the item's trace id, in the order of the collection,
\* and the result has the collection's length and order, each element with
\* the id and trace id of its item.
C16_OneLookupPerItem ==
    (req # None /\ RunHasItems) =>
        LET run_items == RunAnswer.dataset_run_items.list
            lookups == Tail(calls)
        IN  /\ Len(RunLookups(calls)) = 1
            /\ lookups = TraceLookups(calls)
            /\ Len(lookups) = Len(run_items)
            /\ \A i \in DOMAIN lookups : lookups[i].args = << run_items[i].trace_id >>
            /\ req.generic_items # None
            /\ Len(req.generic_items.list) = Len(run_items)
            /\ \A i \in DOMAIN run_items :
                 /\ req.generic_items.list[i].item_id = run_items[i].id
                 /\ req.generic_items.list[i].trace_id = run_items[i].trace_id

\* C16 amended: the trace lookups go item by item, in order, up to and
\* including the first item whose trace is absent, where the fetch raises;
\* when no trace is absent there is one lookup per item and the result has
\* the collection's length and order, ids and trace ids.
C16_OneLookupPerItemUntilMissing ==
    (req # None /\ RunHasItems) =>
        LET run_items == RunAnswer.dataset_run_items.list
            lookups == Tail(calls)
            n == Len(lookups)
        IN  /\ Len(RunLookups(calls)) = 1
            /\ lookups = TraceLookups(calls)
            /\ n <= Len(run_items)
            /\ \A i \in DOMAIN lookups : lookups[i].args = << run_items[i].trace_id >>
            /\ \A i \in 1..(n - 1) : lookups[i].returned # None
            /\ (n < Len(run_items)) => lookups[n].returned = None
            /\ (n > 0 /\ lookups[n].returned = None) => req.raised # None
            /\ (\A i \in DOMAIN lookups : lookups[i].returned # None) =>
                 /\ n = Len(run_items)
                 /\ req.raised = None
                 /\ req.generic_items # None
                 /\ Len(req.generic_items.list) = Len(run_items)
                 /\ \A i \in DOMAIN run_items :
                      /\ req.generic_items.list[i].item_id = run_items[i].id
                      /\ req.generic_items.list[i].trace_id = run_items[i].trace_id

C16_Witness ==
    /\ req # None /\ RunHasItems
    /\ Len(RunAnswer.dataset_run_items.list) = 2
    /\ Len(calls) = 3
    /\ req.generic_items # None

\* C17: the structured report is the header, then one case per item of the
\* result set in its order, the i-th case naming the i-th item's id, then the
\* trailer and nothing after it; every remote lookup of the command comes
\* before the first write.
C17_HeaderCasesTrailerInOrder ==
    (req # None /\ req.kind = "junit" /\ Written # <<>>) =>
        LET its == req.generic_items.list
            n == Len(its)
        IN  /\ Len(Written) = n + 2
            /\ Written[1] = HeaderChunk(n)
            /\ \A i \in 1..n :
                 /\ IsCaseChunk(Written[i + 1])
                 /\ Written[i + 1].lines[1].text[2] = its[i].item_id
            /\ Written[n + 2] = TrailerChunk
            /\ Count(events, "echo") = n + 2
            /\ \A i, j \in DOMAIN events :
                 (events[i] = "echo" /\ events[j] \in {"get_dataset_run", "fetch_trace"})
                    => j < i

C17_Witness ==
    /\ req # None /\ req.kind = "junit" /\ Len(Written) = 4
    /\ Count(events, "fetch_trace") = 2
    /\ req.output_file # None


\* C18: the lines of a case block are, in this order: the case header, the
\* properties opening, the trace property, the cost property if there is a
\* cost, one score property per score record in the order of scores (also
\* for repeated names and names that sanitize to the same text), the
\* properties closing, the failure marker if there is one, the case trailer.
C18_CaseBlockOrder ==
    (result # None /\ result.op = "to_junit") =>
        LET lines == result.value
            n == Len(item.scores)
            c == IF item.cost # None THEN 1 ELSE 0
            f == Cardinality(FailureMarkers(lines))
        IN  /\ Len(lines) = 5 + c + n + f
            /\ f <= 1
            /\ lines[1].text[1] = "<testcase classname='langfuse' name='"
            /\ lines[2].text = << "<properties>" >>
            /\ lines[3].text = << "<property name='evals.trace_id' value='", item.trace_id, "' />" >>
            /\ CostLines(lines) = IF c = 1 THEN {4} ELSE {}
            /\ { i \in DOMAIN lines : lines[i].text[1] = "<property name='evals.scores." }
                  = { 3 + c + i : i \in 1..n }
            /\ \A i \in 1..n :
                 /\ NameIn(lines[3 + c + i]) = Replace(item.scores[i]["name"])
                 /\ lines[3 + c + i].text[Len(lines[3 + c + i].text) - 1]
                       = PyStr(item.scores[i]["value"])
            /\ lines[4 + c + n].text = << "</properties>" >>
            /\ FailureMarkers(lines) \subseteq { 5 + c + n }
            /\ lines[Len(lines)].text = << "</testcase>" >>

\* a cost, a failure marker, and two scores whose names sanitize to the same
\* text but whose values differ
C18_Witness ==
    /\ result # None /\ result.op = "to_junit"
    /\ item.cost # None
    /\ FailureMarkers(result.value) # {}
    /\ Len(item.scores) = 2
    /\ item.scores[1]["name"] # item.scores[2]["name"]
    /\ Replace(item.scores[1]["name"]) = Replace(item.scores[2]["name"])
    /\ item.scores[1]["value"] # item.scores[2]["value"]

FirstIndex(records, name) ==
    CHOOSE i \in DOMAIN records :
        records[i].name = name /\ \A j \in 1..(i - 1) : records[j].name # name

\* C19: the summary has one section per distinct score name of the result
\* set, named by the name as it is (not sanitized), the sections in the order
\* in which the names first occur when the items are scanned in order and the
\* scores of each item in order; the values aggregated under a name are the
\* values of its records in that scan order.
C19_SectionsInFirstSeenOrder ==
    (result # None /\ result.op = "summary") =>
        LET secs == Sections(result.value)
            records == AllScores(result_set.list)
            agg == result.aggregate
        IN  /\ Len(secs) = Len(agg)
            /\ \A k \in DOMAIN secs : SectionName(secs[k]) = agg[k].name
            /\ \A k, l \in DOMAIN secs : agg[k].name = agg[l].name => k = l
            /\ { agg[k].name : k \in DOMAIN agg } = { records[i].name : i \in DOMAIN records }
            /\ \A k, l \in DOMAIN agg :
                 k < l => FirstIndex(records, agg[k].name) < FirstIndex(records, agg[l].name)
            /\ \A k \in DOMAIN agg :
                 LET mine == Named(records, agg[k].name)
                 IN  agg[k].values = [i \in DOMAIN mine |-> mine[i].value]

\* the dotted name first, then its underscored twin, then the dotted name
\* again in the next item, with another value
C19_Witness ==
    /\ result # None /\ result.op = "summary"
    /\ Len(result_set.list) = 2
    /\ Len(result.aggregate) = 2
    /\ result.aggregate[1].name = <<"a", ".", "b", ".", "c">>
    /\ result.aggregate[2].name = <<"a", "_", "b", "_", "c">>
    /\ Len(result.aggregate[1].values) = 2
    /\ result.aggregate[1].values[1] # result.aggregate[1].values[2]
    /\ Len(result_set.list[1].scores) = 2

\* C20: from the same memo and the same remote answers, summary requests
\* that differ only in success_score_name have one and the same outcome:
\* the same text written to the same places, the same remote calls in the
\* same order, the same result set and the same memo afterwards.
C20_SummaryIgnoresSuccessScoreName ==
    \A k \in Keys, o \in OutputFiles :
        \A env \in EnvsFor(k[1], k[2]) :
            Cardinality({ TextReport(cache, k[1], k[2], s, o, env) :
                            s \in SuccessScoreNames }) = 1

\* a summary request that wrote at least one section, for a pair whose memo
\* entry lets a second request with the other success_score_name be compared
C20_Witness ==
    /\ req # None /\ req.kind = "text" /\ req.raised = None
    /\ Len(Written) >= 4
    /\ CacheIndex(cache, ReqKey) # 0
    /\ \E s \in SuccessScoreNames : s # req.success_score_name


AbsentResult == req # None /\ req.raised = None /\ req.generic_items = None

\* C21: a report command given an output file, whose fetch gave the absent
\* result (run not found, or a run without items collection), has not opened
\* the file (open in mode "w" creates or truncates it) and holds no handle
\* when it returns.
C21_AbsentResultLeavesFileAlone ==
    (AbsentResult /\ req.output_file # None) =>
        /\ Count(events, "open") = 0
        /\ fds = <<>>


\* C22: once a fetch for a pair ended with the absent result (run not found,
\* or no items collection), every later request for the pair gets the absent
\* result again with no remote lookup and no diagnostic printed, whatever the
\* remote would answer now and whatever was requested in between.
C22_AbsentResultIsMemoized ==
    (req # None /\ req.repeat /\ ~ first[ReqKey].raised
                /\ first[ReqKey].generic_items = None) =>
        /\ AbsentResult
        /\ calls = <<>>
        /\ Diagnostics = <<>>
        /\ Count(events, "get_dataset_run") = 0
        /\ Count(events, "secho") = 0


Aborted(r) == r # None /\ r.raised # None /\ r.raised.error = "ValueError"
SamePair(r1, r2) == r1.dataset_name = r2.dataset_name /\ r1.run_name = r2.run_name

\* C23: a fetch that aborts because the trace of an item was not found leaves
\* the memo as it was, without an entry for the pair, and has looked up the
\* traces of the items up to the failing one only; the next request for the
\* same pair issues the run lookup again and starts the trace lookups again
\* from the first item.
C23_AbortLeavesMemoAndIsRepeated ==
    [][ /\ Aborted(req') =>
             /\ cache' = cache
             /\ CacheIndex(cache', <<req'.dataset_name, req'.run_name>>) = 0
             /\ calls' # <<>>
             /\ calls'[1].fn = "get_dataset_run"
             /\ LET run_items == calls'[1].returned.dataset_run_items.list
                    lookups == Tail(calls')
                    n == Len(lookups)
                IN  /\ lookups = TraceLookups(calls')
                    /\ n >= 1 /\ n <= Len(run_items)
                    /\ \A i \in 1..n : lookups[i].args = << run_items[i].trace_id >>
                    /\ \A i \in 1..(n - 1) : lookups[i].returned # None
                    /\ lookups[n].returned = None
        /\ (Aborted(req) /\ req' # None /\ SamePair(req, req')) =>
             /\ calls' # <<>>
             /\ calls'[1] = Call("get_dataset_run", <<req.dataset_name, req.run_name>>,
                                 calls'[1].returned)
             /\ (/\ calls'[1].returned.kind = "run"
                 /\ calls'[1].returned.dataset_run_items # None
                 /\ calls'[1].returned.dataset_run_items.list # <<>>) =>
                   /\ Len(calls') >= 2
                   /\ calls'[2].fn = "fetch_trace"
                   /\ calls'[2].args
                        = << calls'[1].returned.dataset_run_items.list[1].trace_id >>
      ]_vars

\* the request before this one, for the same pair, aborted on a missing
\* trace; this one looks the run up a second time and gets both items
C23_Witness ==
    /\ req # None /\ req.after_abort
    /\ LookedUp /\ calls[1].args = ReqKey
    /\ Len(TraceLookups(calls)) = 2
    /\ req.generic_items # None

====
